---- MODULE Spec2Model ----
(***************************************************************************)
(* A model of daily_arxiv.py: the item fetcher, the record store (merge    *)
(* and code-link backfill), the Markdown renderer and the workflow that    *)
(* wires them over the three output targets.                               *)
(*                                                                         *)
(* Text is modelled as a sequence of one-character strings, so that the    *)
(* string operations of the code (split, strip, replace, find, the regular *)
(* expressions) are computed and not assumed.  A Python dict is modelled   *)
(* as a sequence of [k, v] records with distinct keys, in insertion order. *)
(***************************************************************************)
EXTENDS Integers, Sequences, FiniteSets, TLC

VARIABLES
    files,          \* target -> the JSON file of the target's store
    output,         \* target -> the chunks written to the target's Markdown file
    config,         \* the configuration of the run (main_workflow's argument)
    pc,             \* position of the run
    stage,          \* index into TargetOrder of the target being processed
    remaining,      \* topics of formatted_keywords not fetched yet
    new_table_data, \* main_workflow: table rows fetched in this run
    new_list_data,  \* main_workflow: list entries fetched in this run
    error,          \* the exception that ended the run, or NoError
    calls,          \* the code-link resolver's log: one record per request
    lastOp,         \* the last operation performed and its inputs
    input,          \* the argument of a helper function called on its own
    result          \* what the helper returned, one element per call

vars == <<files, output, config, pc, stage, remaining, new_table_data,
          new_list_data, error, calls, lastOp, input, result>>

-----------------------------------------------------------------------------
(* Text helpers: Python's str methods on sequences of characters.          *)

Whitespace == {" ", "\n", "\t"}

Digits == {"0", "1", "2", "3", "4", "5", "6", "7", "8", "9"}

\* Code points of the characters that occur in identifiers (str comparison).
CodePoint ==
    [c \in Digits \cup {".", "/", "v", "x"} |->
        CASE c = "." -> 46 [] c = "/" -> 47
          [] c = "0" -> 48 [] c = "1" -> 49 [] c = "2" -> 50 [] c = "3" -> 51
          [] c = "4" -> 52 [] c = "5" -> 53 [] c = "6" -> 54 [] c = "7" -> 55
          [] c = "8" -> 56 [] c = "9" -> 57
          [] c = "v" -> 118 [] c = "x" -> 120]

\* a < b for Python strings: lexicographic by code point.
RECURSIVE StrLess(_, _)
StrLess(a, b) ==
    IF a = <<>> THEN b # <<>>
    ELSE IF b = <<>> THEN FALSE
    ELSE IF a[1] = b[1] THEN StrLess(Tail(a), Tail(b))
    ELSE CodePoint[a[1]] < CodePoint[b[1]]

\* s[i-1:] of Python, with i counted from 1.
From(s, i) == SubSeq(s, i, Len(s))

\* s[i-1:].startswith(p)
StartsWithAt(s, i, p) ==
    /\ i + Len(p) - 1 <= Len(s)
    /\ \A k \in DOMAIN p : s[i + k - 1] = p[k]

RECURSIVE FindFrom(_, _, _)
FindFrom(s, p, i) ==
    IF i + Len(p) - 1 > Len(s) THEN 0
    ELSE IF StartsWithAt(s, i, p) THEN i
    ELSE FindFrom(s, p, i + 1)

\* str.find, counted from 1; 0 stands for Python's -1.
find(s, p) == FindFrom(s, p, 1)

\* str.split(sep) with a non-empty separator.
RECURSIVE split(_, _)
split(s, sep) ==
    LET i == find(s, sep)
    IN  IF i = 0 THEN <<s>>
        ELSE <<SubSeq(s, 1, i - 1)>> \o split(From(s, i + Len(sep)), sep)

RECURSIVE lstrip(_)
lstrip(s) ==
    IF s # <<>> /\ s[1] \in Whitespace THEN lstrip(Tail(s)) ELSE s

RECURSIVE rstrip(_)
rstrip(s) ==
    IF s # <<>> /\ s[Len(s)] \in Whitespace
    THEN rstrip(SubSeq(s, 1, Len(s) - 1)) ELSE s

\* str.strip()
strip(s) == rstrip(lstrip(s))

\* str.replace(old, new): every non-overlapping occurrence, left to right.
RECURSIVE replace(_, _, _)
replace(s, old, new) ==
    LET i == find(s, old)
    IN  IF i = 0 THEN s
        ELSE SubSeq(s, 1, i - 1) \o new \o replace(From(s, i + Len(old)), old, new)

\* The number of words of str.split() (split on runs of whitespace).
RECURSIVE WordCount(_, _)
WordCount(s, inWord) ==
    IF s = <<>> THEN 0
    ELSE IF s[1] \in Whitespace THEN WordCount(Tail(s), FALSE)
    ELSE (IF inWord THEN 0 ELSE 1) + WordCount(Tail(s), TRUE)

RECURSIVE Join(_, _)
Join(parts, sep) ==
    IF parts = <<>> THEN <<>>
    ELSE IF Len(parts) = 1 THEN parts[1]
    ELSE parts[1] \o sep \o Join(Tail(parts), sep)

-----------------------------------------------------------------------------
(* Python dicts, in insertion order.                                       *)

EmptyDict == <<>>

Keys(d) == [i \in DOMAIN d |-> d[i].k]

KeySet(d) == {d[i].k : i \in DOMAIN d}

Has(d, key) == key \in KeySet(d)

\* d[key], for a key of d.
Get(d, key) == d[CHOOSE i \in DOMAIN d : d[i].k = key].v

\* d[key] = value: a stored key keeps its position, a new key goes last.
Put(d, key, value) ==
    IF Has(d, key)
    THEN [i \in DOMAIN d |-> IF d[i].k = key THEN [k |-> key, v |-> value] ELSE d[i]]
    ELSE Append(d, [k |-> key, v |-> value])

\* A variant of Update that keeps the stored value of a key it already holds
\* (dict.setdefault in place of an assignment).
RECURSIVE UpdateKeepingStored(_, _)
UpdateKeepingStored(d, other) ==
    IF other = <<>> THEN d
    ELSE UpdateKeepingStored(
             IF Has(d, other[1].k) THEN d ELSE Put(d, other[1].k, other[1].v),
             Tail(other))

\* d.update(other)
RECURSIVE Update(_, _)
Update(d, other) ==
    IF other = <<>> THEN d
    ELSE Update(Put(d, other[1].k, other[1].v), Tail(other))

-----------------------------------------------------------------------------
(* Constants of the program and the literals of its format strings.        *)

ARXIV_BASE_URL == <<"h", "t", "t", "p", ":", "/", "/", "a", "r", "x", "i", "v", ".", "o", "r", "g", "/">>

NULL == <<"n", "u", "l", "l">>

NULL_COLUMN == <<"|", "n", "u", "l", "l", "|">>

OR_SEPARATOR == <<" ", "O", "R", " ">>

QUOTE == <<"\"">>

\* The exception of a run that raised none.
NoError == "none"

\* What the code-link resolver (the PapersWithCode request) can do.  "error"
\* is any exception of the request: a network failure, a non-2xx status
\* (raise_for_status) or a payload that is not the expected JSON; the code
\* handles them all in one `except Exception`.
Answers == {"official", "none", "error"}

\* pwc_data["official"]["url"] of an answer that reports an official link.
OfficialUrl == <<"u">>

-----------------------------------------------------------------------------
(* Helper functions of the program.                                        *)

RECURSIVE parse_filter_keywords(_)
parse_filter_keywords(filters) ==
    IF filters = <<>> THEN <<>>
    ELSE (IF WordCount(filters[1], FALSE) > 1
          THEN QUOTE \o filters[1] \o QUOTE
          ELSE filters[1])
         \o (IF Len(filters) # 1 THEN OR_SEPARATOR ELSE <<>>)
         \o parse_filter_keywords(Tail(filters))

\* keywords: dict topic -> filters; the result: dict topic -> search string.
process_config_keywords(keywords) ==
    [i \in DOMAIN keywords |->
        [k |-> keywords[i].k, v |-> parse_filter_keywords(keywords[i].v)]]

format_authors(authors, only_first_author) ==
    IF only_first_author
    THEN IF authors # <<>> THEN authors[1] \o <<" ", "e", "t", ".", "a", "l", ".">>
         ELSE <<"U", "n", "k", "n", "o", "w", "n", " ", "A", "u", "t", "h", "o", "r">>
    ELSE IF authors # <<>> THEN Join(authors, <<",", " ">>)
         ELSE <<"U", "n", "k", "n", "o", "w", "n", " ", "A", "u", "t", "h", "o", "r", "s">>

\* The greatest string of a non-empty set of strings.
MaxKey(S) == CHOOSE m \in S : \A o \in S : o = m \/ StrLess(o, m)

\* sorted(keys, reverse=True) for a set of distinct keys.
RECURSIVE SortedDesc(_)
SortedDesc(S) ==
    IF S = {} THEN <<>>
    ELSE <<MaxKey(S)>> \o SortedDesc(S \ {MaxKey(S)})

\* A renderer that writes a topic's entries in the order the store holds them.
StoredOrder(papers) == papers

sort_papers_by_id_desc(papers) ==
    LET sorted_paper_ids == SortedDesc(KeySet(papers))
    IN  [i \in DOMAIN sorted_paper_ids |->
            [k |-> sorted_paper_ids[i], v |-> Get(papers, sorted_paper_ids[i])]]

-----------------------------------------------------------------------------
(* fetch_daily_arxiv_papers: the rows of one topic.                        *)

\* raw_paper_id up to the first "v" (raw_paper_id.find("v")).
CleanPaperId(raw_paper_id) ==
    LET version_pos == find(raw_paper_id, <<"v">>)
    IN  IF version_pos # 0 THEN SubSeq(raw_paper_id, 1, version_pos - 1)
        ELSE raw_paper_id

CleanArxivUrl(clean_paper_id) ==
    ARXIV_BASE_URL \o <<"a", "b", "s", "/">> \o clean_paper_id

\* A variant of TryResolve whose except clause does not catch the request's
\* exception.
TryResolveUncaught(answer) ==
    [raised |-> answer = "error", official |-> answer = "official"]

\* The try block around the resolver request, in the fetch and in the
\* backfill: `except Exception` catches whatever the request raises, so
\* nothing is raised out of the block; official tells whether the answer
\* reported an official link.
TryResolve(answer) == [raised |-> FALSE, official |-> answer = "official"]

\* code_url after the try block: the official link, or None (<<>>).
CodeUrlOf(answer) ==
    IF TryResolve(answer).official THEN OfficialUrl ELSE <<>>

TableRow(paper, code_url) ==
    LET clean_paper_id == CleanPaperId(paper.short_id)
        head == <<"|", "*", "*">> \o paper.updated \o <<"*", "*", "|", "*", "*">> \o paper.title
                \o <<"*", "*", "|">> \o format_authors(paper.authors, TRUE)
                \o <<"|", "[">> \o clean_paper_id \o <<"]", "(">>
                \o CleanArxivUrl(clean_paper_id) \o <<")", "|">>
    IN  IF code_url # <<>>
        THEN head \o <<"*", "*", "[", "l", "i", "n", "k", "]", "(">> \o code_url \o <<")", "*", "*", "|", "\n">>
        ELSE head \o <<"n", "u", "l", "l", "|", "\n">>

ListItem(paper, code_url) ==
    LET url == CleanArxivUrl(CleanPaperId(paper.short_id))
        head == <<"-", " ">> \o paper.updated \o <<",", " ", "*", "*">> \o paper.title
                \o <<"*", "*", ",", " ">> \o format_authors(paper.authors, TRUE)
                \o <<",", " ", "P", "a", "p", "e", "r", ":", " ", "[">> \o url \o <<"]", "(">> \o url \o <<")">>
        code == IF code_url # <<>>
                THEN <<",", " ", "C", "o", "d", "e", ":", " ", "*", "*", "[">> \o code_url \o <<"]", "(">>
                     \o code_url \o <<")", "*", "*">>
                ELSE <<>>
    IN  head \o code
        \o (IF paper.comment # <<>> THEN <<",", " ">> \o paper.comment ELSE <<>>)
        \o <<"\n">>

\* The loop over the search results: results[i] is answered by answers[i].
RECURSIVE FetchLoop(_, _, _, _, _)
FetchLoop(results, answers, i, table, list) ==
    IF i > Len(results)
    THEN [error |-> NoError, table |-> table, list |-> list]
    ELSE LET paper == results[i]
             id == CleanPaperId(paper.short_id)
             code_url == CodeUrlOf(answers[i])
         IN  IF TryResolve(answers[i]).raised
             THEN [error |-> "RequestException", table |-> table, list |-> list]
             ELSE FetchLoop(results, answers, i + 1,
                            Put(table, id, TableRow(paper, code_url)),
                            Put(list, id, ListItem(paper, code_url)))

\* The result: the two single-topic documents and the resolver requests made.
fetch_daily_arxiv_papers(topic, results, answers) ==
    LET data == FetchLoop(results, answers, 1, EmptyDict, EmptyDict)
    IN  [error |-> data.error,
         table |-> <<[k |-> topic, v |-> data.table]>>,
         list |-> <<[k |-> topic, v |-> data.list]>>,
         requests |-> [i \in DOMAIN results |->
                          [id |-> CleanPaperId(results[i].short_id),
                           answer |-> answers[i]]]]

-----------------------------------------------------------------------------
(* The JSON file of a store.                                               *)

AbsentFile == [kind |-> "absent", data |-> EmptyDict]

EmptyFile == [kind |-> "empty", data |-> EmptyDict]

\* json.dump(data, f): the file holds the whole document.
JsonFile(data) == [kind |-> "json", data |-> data]

\* open(json_file_path, "r") raises FileNotFoundError for a file that is absent.
CanOpen(file) == file.kind # "absent"

\* json.loads(content) if content else {}
LoadJson(file) == IF file.kind = "json" THEN file.data ELSE EmptyDict

-----------------------------------------------------------------------------
(* update_paper_code_links: the backfill of the code links.                *)

\* The end of the first "]" after position j - 1 that "." can reach, or 0.
RECURSIVE CloseFrom(_, _)
CloseFrom(s, j) ==
    IF j > Len(s) THEN 0
    ELSE IF s[j] = "]" THEN j
    ELSE IF s[j] = "\n" THEN 0
    ELSE CloseFrom(s, j + 1)

\* re.findall(r'\[(.*?)\]', s): the group of the first match, if there is one.
RECURSIVE BracketFrom(_, _)
BracketFrom(s, i) ==
    IF i > Len(s) THEN [found |-> FALSE, group |-> <<>>]
    ELSE IF s[i] = "[" /\ CloseFrom(s, i + 1) # 0
         THEN [found |-> TRUE, group |-> SubSeq(s, i + 1, CloseFrom(s, i + 1) - 1)]
         ELSE BracketFrom(s, i + 1)

RECURSIVE DropDigits(_)
DropDigits(s) ==
    IF s # <<>> /\ s[1] \in Digits THEN DropDigits(Tail(s)) ELSE s

\* re.sub(r'v\d+', '', s)
RECURSIVE StripVersions(_)
StripVersions(s) ==
    IF s = <<>> THEN <<>>
    ELSE IF s[1] = "v" /\ Len(s) >= 2 /\ s[2] \in Digits
         THEN StripVersions(DropDigits(Tail(s)))
         ELSE <<s[1]>> \o StripVersions(Tail(s))

\* ok is FALSE where the code raises IndexError (a row with fewer than six
\* parts, or no bracketed identifier in the fifth).
parse_paper_info_from_markdown(markdown_row) ==
    LET raw == split(markdown_row, <<"|">>)
        parts == [i \in DOMAIN raw |-> strip(raw[i])]
        bracket == IF Len(parts) >= 5 THEN BracketFrom(parts[5], 1)
                   ELSE [found |-> FALSE, group |-> <<>>]
    IN  IF Len(parts) >= 6 /\ bracket.found
        THEN [ok |-> TRUE, update_date |-> parts[2], title |-> parts[3],
              authors |-> parts[4], paper_id |-> StripVersions(bracket.group),
              code_link |-> parts[6]]
        ELSE [ok |-> FALSE, update_date |-> <<>>, title |-> <<>>,
              authors |-> <<>>, paper_id |-> <<>>, code_link |-> <<>>]

\* The row after a resolver answer that reports an official link.
PatchedRow(markdown_row) ==
    LET new_code_link == <<"*", "*", "[", "l", "i", "n", "k", "]", "(">> \o OfficialUrl \o <<")", "*", "*">>
    IN  replace(markdown_row, NULL_COLUMN, <<"|">> \o new_code_link \o <<"|">>)

\* The test that sends a row to the resolver.
NeedsLink(info) == info.code_link = NULL

\* The loops over the topics (t) and their entries (e); n requests were made.
RECURSIVE BackfillLoop(_, _, _, _, _)
BackfillLoop(paper_data, answers, t, e, requests) ==
    IF t > Len(paper_data)
    THEN [error |-> NoError, data |-> paper_data, requests |-> requests]
    ELSE IF e > Len(paper_data[t].v)
    THEN BackfillLoop(paper_data, answers, t + 1, 1, requests)
    ELSE LET topic == paper_data[t].k
             paper_id == paper_data[t].v[e].k
             markdown_row == paper_data[t].v[e].v
             info == parse_paper_info_from_markdown(markdown_row)
             answer == answers[Len(requests) + 1]
             request == [topic |-> topic, key |-> paper_id,
                         id |-> info.paper_id, answer |-> answer]
         IN  IF ~info.ok
             THEN [error |-> "IndexError", data |-> paper_data, requests |-> requests]
             ELSE IF ~NeedsLink(info)
             THEN BackfillLoop(paper_data, answers, t, e + 1, requests)
             ELSE IF TryResolve(answer).raised
             THEN [error |-> "RequestException", data |-> paper_data,
                   requests |-> Append(requests, request)]
             ELSE IF TryResolve(answer).official
             THEN BackfillLoop(
                      [paper_data EXCEPT ![t].v[e].v = PatchedRow(markdown_row)],
                      answers, t, e + 1, Append(requests, request))
             ELSE BackfillLoop(paper_data, answers, t, e + 1,
                               Append(requests, request))

\* The number of requests the backfill of a document makes.
RECURSIVE RequestCount(_, _, _)
RequestCount(paper_data, t, e) ==
    IF t > Len(paper_data) THEN 0
    ELSE IF e > Len(paper_data[t].v) THEN RequestCount(paper_data, t + 1, 1)
    ELSE LET info == parse_paper_info_from_markdown(paper_data[t].v[e].v)
         IN  IF ~info.ok THEN 0
             ELSE (IF NeedsLink(info) THEN 1 ELSE 0)
                  + RequestCount(paper_data, t, e + 1)

\* The file after the call, the exception it raised and the requests it made;
\* answers[i] is the resolver's answer to the i-th request.
update_paper_code_links(file, answers) ==
    IF ~CanOpen(file)
    THEN [error |-> "FileNotFoundError", file |-> file, requests |-> <<>>]
    ELSE LET r == BackfillLoop(LoadJson(file), answers, 1, 1, <<>>)
         IN  [error |-> r.error,
              file |-> IF r.error = NoError THEN JsonFile(r.data) ELSE file,
              requests |-> r.requests]

-----------------------------------------------------------------------------
(* update_papers_json_file: the merge of newly fetched rows.               *)

\* A variant of MergeLoop that assigns the new mapping to the topic whether
\* the topic is stored or not.
RECURSIVE MergeLoopReplacing(_, _, _, _, _)
MergeLoopReplacing(existing_data, new_papers_data, alias, i, j) ==
    IF i > Len(new_papers_data)
    THEN [data |-> existing_data, batch |-> new_papers_data]
    ELSE IF j > Len(new_papers_data[i])
    THEN MergeLoopReplacing(existing_data, new_papers_data, alias, i + 1, 1)
    ELSE MergeLoopReplacing(
             Put(existing_data, new_papers_data[i][j].k, new_papers_data[i][j].v),
             new_papers_data, alias, i, j + 1)

\* existing_data[topic] = new_papers stores the batch's own dict object, so a
\* later update of that topic also changes the batch: alias maps such a topic
\* to the place <<i, j>> of its dict in the batch.
RECURSIVE MergeLoop(_, _, _, _, _)
MergeLoop(existing_data, new_papers_data, alias, i, j) ==
    IF i > Len(new_papers_data)
    THEN [data |-> existing_data, batch |-> new_papers_data]
    ELSE IF j > Len(new_papers_data[i])
    THEN MergeLoop(existing_data, new_papers_data, alias, i + 1, 1)
    ELSE LET topic == new_papers_data[i][j].k
             new_papers == new_papers_data[i][j].v
             updated == Update(Get(existing_data, topic), new_papers)
         IN  IF Has(existing_data, topic)
             THEN MergeLoop(
                      Put(existing_data, topic, updated),
                      IF Has(alias, topic)
                      THEN [new_papers_data EXCEPT
                               ![Get(alias, topic)[1]][Get(alias, topic)[2]].v = updated]
                      ELSE new_papers_data,
                      alias, i, j + 1)
             ELSE MergeLoop(Put(existing_data, topic, new_papers),
                            new_papers_data, Put(alias, topic, <<i, j>>), i, j + 1)

\* The file after the call, the exception it raised and the batch afterwards.
update_papers_json_file(file, new_papers_data) ==
    IF ~CanOpen(file)
    THEN [error |-> "FileNotFoundError", file |-> file, batch |-> new_papers_data]
    ELSE LET r == MergeLoop(LoadJson(file), new_papers_data, EmptyDict, 1, 1)
         IN  [error |-> NoError, file |-> JsonFile(r.data), batch |-> r.batch]

-----------------------------------------------------------------------------
(* convert_json_to_markdown: the renderer.                                 *)

\* The last "$" of s from position j on that "." can reach (no newline in
\* between), or best if there is none.
RECURSIVE LastDollarFrom(_, _, _)
LastDollarFrom(s, j, best) ==
    IF j > Len(s) \/ s[j] = "\n" THEN best
    ELSE LastDollarFrom(s, j + 1, IF s[j] = "$" THEN j ELSE best)

\* re.search(r"\$.*\$", text): the leftmost match, as long as it can be.
RECURSIVE FormulaMatchFrom(_, _)
FormulaMatchFrom(text, i) ==
    IF i > Len(text) THEN [found |-> FALSE, first |-> 0, last |-> 0]
    ELSE IF text[i] = "$" /\ LastDollarFrom(text, i + 1, 0) # 0
         THEN [found |-> TRUE, first |-> i, last |-> LastDollarFrom(text, i + 1, 0)]
         ELSE FormulaMatchFrom(text, i + 1)

format_latex_formula(text) ==
    LET formula_match == FormulaMatchFrom(text, 1)
        first == formula_match.first
        last == formula_match.last
        before == IF first > 1 /\ text[first - 1] \notin {" ", "*"}
                  THEN <<" ">> ELSE <<>>
        after == IF last < Len(text) /\ text[last + 1] \notin {" ", "*"}
                 THEN <<" ">> ELSE <<>>
    IN  IF ~formula_match.found THEN text
        ELSE SubSeq(text, 1, first - 1)
             \o before \o <<"$">> \o strip(SubSeq(text, first + 1, last - 1))
             \o <<"$">> \o after
             \o From(text, last + 1)

UpperCase == <<"A", "B", "C", "D", "E", "F", "G", "H", "I", "J", "K", "L", "M", "N", "O", "P", "Q", "R", "S", "T", "U", "V", "W", "X", "Y", "Z">>

LowerCase == <<"a", "b", "c", "d", "e", "f", "g", "h", "i", "j", "k", "l", "m", "n", "o", "p", "q", "r", "s", "t", "u", "v", "w", "x", "y", "z">>

\* str.lower() of one character
LowerChar(c) ==
    IF \E i \in DOMAIN UpperCase : UpperCase[i] = c
    THEN LowerCase[CHOOSE i \in DOMAIN UpperCase : UpperCase[i] = c]
    ELSE c

\* topic.replace(" ", "-").lower()
TopicLink(topic) ==
    LET dashed == replace(topic, <<" ">>, <<"-">>)
    IN  [i \in DOMAIN dashed |-> LowerChar(dashed[i])]

\* datetime.date.today().strftime("%Y.%m.%d") of the day of the run.
current_date == <<"2", "0", "2", "4", ".", "0", "1", ".", "0", "2">>

\* One f.write of the renderer: the statement that wrote it (kind), the topic
\* and the identifier it was written for, and the text written.  A block whose
\* text is a literal of the program is named by its kind alone.
Chunk(kind, topic, id, text) ==
    [kind |-> kind, topic |-> topic, id |-> id, text |-> text]

Fixed(kind) == Chunk(kind, <<>>, <<>>, <<>>)

TocItems(paper_data) ==
    [i \in DOMAIN paper_data |->
        Chunk("toc_item", paper_data[i].k, <<>>,
              <<" ", " ", " ", " ", "<", "l", "i", ">", "<", "a", " ", "h", "r", "e", "f", "=", "#">> \o TopicLink(paper_data[i].k) \o <<">">>
              \o paper_data[i].k \o <<"<", "/", "a", ">", "<", "/", "l", "i", ">", "\n">>)]

\* The entries of one topic: sorted, the empty ones left out.
RECURSIVE EntryChunks(_, _)
EntryChunks(topic, sorted_papers) ==
    IF sorted_papers = <<>> THEN <<>>
    ELSE (IF sorted_papers[1].v # <<>>
          THEN <<Chunk("entry", topic, sorted_papers[1].k,
                       format_latex_formula(sorted_papers[1].v))>>
          ELSE <<>>)
         \o EntryChunks(topic, Tail(sorted_papers))

TopicSection(topic, papers, opts) ==
    <<Chunk("heading", topic, <<>>, <<"#", "#", " ">> \o topic \o <<"\n", "\n">>)>>
    \o (IF opts.use_title /\ ~opts.to_web
        THEN <<Chunk("table_header", topic, <<>>, <<>>)>>
        ELSE IF opts.use_title /\ opts.to_web
        THEN <<Chunk("web_table_header", topic, <<>>, <<>>)>>
        ELSE <<>>)
    \o EntryChunks(topic, sort_papers_by_id_desc(papers))
    \o <<Chunk("blank", topic, <<>>, <<"\n">>)>>
    \o (IF opts.use_back_to_top
        THEN <<Chunk("back_to_top", topic, <<>>,
                     <<"#", "u", "p", "d", "a", "t", "e", "d", "-", "o", "n", "-">> \o replace(current_date, <<".">>, <<>>))>>
        ELSE <<>>)

\* A renderer that writes a section for every topic, the empty ones included.
RECURSIVE EveryTopicSection(_, _)
EveryTopicSection(paper_data, opts) ==
    IF paper_data = <<>> THEN <<>>
    ELSE TopicSection(paper_data[1].k, paper_data[1].v, opts)
         \o EveryTopicSection(Tail(paper_data), opts)

RECURSIVE TopicSections(_, _)
TopicSections(paper_data, opts) ==
    IF paper_data = <<>> THEN <<>>
    ELSE (IF paper_data[1].v = EmptyDict THEN <<>>
          ELSE TopicSection(paper_data[1].k, paper_data[1].v, opts))
         \o TopicSections(Tail(paper_data), opts)

Markdown(paper_data, opts) ==
    (IF opts.to_web /\ opts.use_title THEN <<Fixed("front_matter")>> ELSE <<>>)
    \o (IF opts.use_title
        THEN <<Chunk("title", <<>>, <<>>,
                     <<"#", "#", " ", "U", "p", "d", "a", "t", "e", "d", " ", "o", "n", " ">> \o current_date \o <<"\n">>)>>
        ELSE <<Chunk("quote_title", <<>>, <<>>,
                     <<">", " ", "U", "p", "d", "a", "t", "e", "d", " ", "o", "n", " ">> \o current_date \o <<"\n">>)>>)
    \o <<Fixed("usage")>>
    \o (IF opts.use_toc
        THEN <<Fixed("toc_open")>> \o TocItems(paper_data) \o <<Fixed("toc_close")>>
        ELSE <<>>)
    \o TopicSections(paper_data, opts)
    \o (IF opts.show_badge THEN <<Fixed("badges")>> ELSE <<>>)

\* The Markdown file before the renderer has written it.
NoOutput == <<>>

\* The exception the call raised and the Markdown file after it.
convert_json_to_markdown(file, md, opts) ==
    IF ~CanOpen(file)
    THEN [error |-> "FileNotFoundError", md |-> md]
    ELSE [error |-> NoError, md |-> Markdown(LoadJson(file), opts)]

-----------------------------------------------------------------------------
(* main_workflow: one run over the three output targets.                   *)

Targets == {"readme", "gitpage", "wechat"}

\* The order of steps 2, 3 and 4 of main_workflow.
TargetOrder == <<"readme", "gitpage", "wechat">>

Published(cfg, target) ==
    CASE target = "readme" -> cfg.publish_readme
      [] target = "gitpage" -> cfg.publish_gitpage
      [] target = "wechat" -> cfg.publish_wechat

\* The options main_workflow passes to convert_json_to_markdown.
RenderOptions(cfg, target) ==
    CASE target = "readme" ->
            [to_web |-> FALSE, use_title |-> TRUE, use_toc |-> TRUE,
             show_badge |-> cfg.show_badge, use_back_to_top |-> TRUE]
      [] target = "gitpage" ->
            [to_web |-> TRUE, use_title |-> TRUE, use_toc |-> FALSE,
             show_badge |-> cfg.show_badge, use_back_to_top |-> FALSE]
      [] target = "wechat" ->
            [to_web |-> FALSE, use_title |-> FALSE, use_toc |-> FALSE,
             show_badge |-> cfg.show_badge, use_back_to_top |-> FALSE]

\* The rows main_workflow merges into a target's store.
NewDataFor(target, table_data, list_data) ==
    IF target = "wechat" THEN list_data ELSE table_data

NoOptions ==
    [to_web |-> FALSE, use_title |-> FALSE, use_toc |-> FALSE,
     show_badge |-> FALSE, use_back_to_top |-> FALSE]

\* The record of an operation: its name, the target whose store it worked on,
\* that store's file before it, and its inputs (the batch merged, the
\* resolver's answers, the renderer's options).
Op(name, target, before, batch, answers, opts) ==
    [op |-> name, target |-> target, before |-> before,
     batch |-> batch, answers |-> answers, opts |-> opts]

NoOp == Op("none", "none", AbsentFile, <<>>, <<>>, NoOptions)

\* One request of the resolver's log.
Call(op, target, topic, key, id, answer) ==
    [op |-> op, target |-> target, topic |-> topic, key |-> key,
     id |-> id, answer |-> answer]

FetchCalls(topic, requests) ==
    [i \in DOMAIN requests |->
        Call("fetch", "none", topic, requests[i].id, requests[i].id,
             requests[i].answer)]

BackfillCalls(target, requests) ==
    [i \in DOMAIN requests |->
        Call("backfill", target, requests[i].topic, requests[i].key,
             requests[i].id, requests[i].answer)]

-----------------------------------------------------------------------------
(* The inputs of a run: the configuration, the stores found on disk and    *)
(* what the paper index returns.                                           *)

\* Most items a search may return (max_results of the configuration).
MaxResults == 2

TopicA == <<"A", "I">>

TopicB == <<"C", " ", "V">>

\* The "keywords" of config.yaml.
Keywords ==
    <<[k |-> TopicA, v |-> <<<<"a", "g", "e", "n", "t">>, <<"w", "o", "r", "l", "d", " ", "m", "o", "d", "e", "l">>>>],
      [k |-> TopicB, v |-> <<<<"S", "L", "A", "M">>>>]>>

Paper(short_id, title, authors, comment) ==
    [short_id |-> short_id, title |-> title, authors |-> authors,
     updated |-> <<"2", "0", "2", "4", "-", "0", "1", "-", "0", "2">>, comment |-> comment]

\* The newest items of the paper index for a topic, newest first.
Feed(topic) ==
    IF topic = TopicA
    THEN <<Paper(<<"3", "v", "2">>, <<"t">>, <<<<"A">>, <<"B">>>>, <<"c">>),
           Paper(<<"1", "0">>, <<"$", "x", "$">>, <<>>, <<>>),
           Paper(<<"2">>, <<"s">>, <<<<"B">>>>, <<>>)>>
    ELSE <<Paper(<<"4", "v", "1">>, <<"t">>, <<<<"A">>>>, <<>>)>>

Min(a, b) == IF a <= b THEN a ELSE b

\* The stores of earlier runs, as the fetcher wrote them: a topic of two
\* items without a code link around one with a link, and a topic of one item
\* without a link.
StoredFetchA ==
    fetch_daily_arxiv_papers(
        TopicA,
        <<Paper(<<"2">>, <<"t">>, <<<<"A">>>>, <<>>),
          Paper(<<"4", "v", "1">>, <<"s">>, <<<<"B">>>>, <<"c">>),
          Paper(<<"5">>, <<"t">>, <<<<"A">>>>, <<>>)>>,
        <<"none", "official", "none">>)

StoredFetchB ==
    fetch_daily_arxiv_papers(
        TopicB, <<Paper(<<"6">>, <<"t">>, <<<<"A">>>>, <<>>)>>, <<"none">>)

StoredTable == StoredFetchA.table \o StoredFetchB.table

StoredList == StoredFetchA.list \o StoredFetchB.list

\* The files a run may find for each target's store.
ReadmeFiles == {AbsentFile, EmptyFile, JsonFile(StoredTable)}

GitpageFiles == {AbsentFile, JsonFile(StoredTable)}

WechatFiles == {EmptyFile, JsonFile(StoredList)}

\* load_config: the file's keys and the formatted keywords.
Configs ==
    {[update_paper_links |-> u, publish_readme |-> r, publish_gitpage |-> g,
      publish_wechat |-> w, show_badge |-> TRUE, max_results |-> MaxResults,
      formatted_keywords |-> process_config_keywords(Keywords)] :
        u \in BOOLEAN, r \in BOOLEAN, g \in BOOLEAN, w \in BOOLEAN}

Init ==
    /\ config \in Configs
    /\ \E r \in ReadmeFiles, g \in GitpageFiles, w \in WechatFiles :
          files = [t \in Targets |->
                      CASE t = "readme" -> r [] t = "gitpage" -> g [] t = "wechat" -> w]
    /\ output = [t \in Targets |-> NoOutput]
    /\ pc = "start"
    /\ stage = 1
    /\ remaining = <<>>
    /\ new_table_data = <<>>
    /\ new_list_data = <<>>
    /\ error = NoError
    /\ calls = <<>>
    /\ lastOp = NoOp
    /\ input = <<>>
    /\ result = <<>>

\* Step 1: fetch the topics, or not.
Begin ==
    /\ pc = "start"
    /\ pc' = IF config.update_paper_links THEN "update" ELSE "fetch"
    /\ remaining' = IF config.update_paper_links THEN <<>>
                    ELSE Keys(config.formatted_keywords)
    /\ UNCHANGED <<input, result, files, output, config, stage, new_table_data, new_list_data,
                   error, calls, lastOp>>

\* One pass of the loop over formatted_keywords: the search returns its
\* results and every item is rendered.
FetchTopic ==
    /\ pc = "fetch"
    /\ remaining # <<>>
    /\ \E n \in 0..Min(config.max_results, Len(Feed(remaining[1]))) :
       \E answers \in [1..n -> Answers] :
       \E r \in {fetch_daily_arxiv_papers(remaining[1],
                                          SubSeq(Feed(remaining[1]), 1, n), answers)} :
          LET topic == remaining[1]
          IN  /\ new_table_data' = IF r.error = NoError
                                   THEN Append(new_table_data, r.table)
                                   ELSE new_table_data
              /\ new_list_data' = IF r.error = NoError
                                  THEN Append(new_list_data, r.list)
                                  ELSE new_list_data
              /\ calls' = calls \o FetchCalls(topic, r.requests)
              /\ error' = r.error
              /\ pc' = IF r.error = NoError THEN "fetch" ELSE "aborted"
              /\ lastOp' = Op("fetch", "none", AbsentFile, <<r.table, r.list>>, answers, NoOptions)
    /\ remaining' = Tail(remaining)
    /\ UNCHANGED <<input, result, files, output, config, stage>>

\* The search raises (network error, malformed response): nothing catches it.
SearchFails ==
    /\ pc = "fetch"
    /\ remaining # <<>>
    /\ pc' = "aborted"
    /\ error' = "SearchError"
    /\ lastOp' = Op("search", "none", AbsentFile, <<>>, <<>>, NoOptions)
    /\ UNCHANGED <<input, result, files, output, config, stage, remaining, new_table_data,
                   new_list_data, calls>>

FetchDone ==
    /\ pc = "fetch"
    /\ remaining = <<>>
    /\ pc' = "update"
    /\ UNCHANGED <<input, result, files, output, config, stage, remaining, new_table_data,
                   new_list_data, error, calls, lastOp>>

\* A target whose publish switch is off.
SkipTarget ==
    /\ pc = "update"
    /\ stage <= Len(TargetOrder)
    /\ ~Published(config, TargetOrder[stage])
    /\ stage' = stage + 1
    /\ UNCHANGED <<input, result, files, output, config, pc, remaining, new_table_data,
                   new_list_data, error, calls, lastOp>>

\* update_paper_code_links(json_path) of a published target.
UpdateLinks ==
    /\ pc = "update"
    /\ stage <= Len(TargetOrder)
    /\ Published(config, TargetOrder[stage])
    /\ config.update_paper_links
    /\ LET target == TargetOrder[stage]
           n == RequestCount(LoadJson(files[target]), 1, 1)
       IN  \E answers \in [1..n -> Answers] :
           \E r \in {update_paper_code_links(files[target], answers)} :
              /\ files' = [files EXCEPT ![target] = r.file]
              /\ calls' = calls \o BackfillCalls(target, r.requests)
              /\ error' = r.error
              /\ pc' = IF r.error = NoError THEN "render" ELSE "aborted"
              /\ lastOp' = Op("backfill", target, files[target], <<>>, answers, NoOptions)
    /\ UNCHANGED <<input, result, output, config, stage, remaining, new_table_data, new_list_data>>

\* update_papers_json_file(json_path, new data) of a published target.
MergeNew ==
    /\ pc = "update"
    /\ stage <= Len(TargetOrder)
    /\ Published(config, TargetOrder[stage])
    /\ ~config.update_paper_links
    /\ LET target == TargetOrder[stage]
           batch == NewDataFor(target, new_table_data, new_list_data)
       IN  \E r \in {update_papers_json_file(files[target], batch)} :
           /\ files' = [files EXCEPT ![target] = r.file]
           /\ new_table_data' = IF target = "wechat" THEN new_table_data ELSE r.batch
           /\ new_list_data' = IF target = "wechat" THEN r.batch ELSE new_list_data
           /\ error' = r.error
           /\ pc' = IF r.error = NoError THEN "render" ELSE "aborted"
           /\ lastOp' = Op("merge", target, files[target], batch, <<>>, NoOptions)
    /\ UNCHANGED <<input, result, output, config, stage, remaining, calls>>

\* convert_json_to_markdown of the target just updated.
Render ==
    /\ pc = "render"
    /\ LET target == TargetOrder[stage]
       IN  \E r \in {convert_json_to_markdown(files[target], output[target],
                                              RenderOptions(config, target))} :
           /\ output' = [output EXCEPT ![target] = r.md]
           /\ error' = r.error
           /\ pc' = IF r.error = NoError THEN "update" ELSE "aborted"
           /\ lastOp' = Op("render", target, files[target], <<>>, <<>>,
                        RenderOptions(config, target))
    /\ stage' = stage + 1
    /\ UNCHANGED <<input, result, files, config, remaining, new_table_data, new_list_data, calls>>

Finish ==
    /\ pc = "update"
    /\ stage > Len(TargetOrder)
    /\ pc' = "done"
    /\ UNCHANGED <<input, result, files, output, config, stage, remaining, new_table_data,
                   new_list_data, error, calls, lastOp>>

Next ==
    \/ Begin
    \/ FetchTopic
    \/ SearchFails
    \/ FetchDone
    \/ SkipTarget
    \/ UpdateLinks
    \/ MergeNew
    \/ Render
    \/ Finish

Spec == Init /\ [][Next]_vars

-----------------------------------------------------------------------------
(* The operations of the record store and the renderer called on their own *)
(* on one store (the README target's), with inputs of more shapes than one *)
(* run of the workflow produces.                                           *)

InitDirect(storeFiles) ==
    /\ \E f \in storeFiles :
          files = [t \in Targets |-> IF t = "readme" THEN f ELSE AbsentFile]
    /\ output = [t \in Targets |-> NoOutput]
    /\ config \in {c \in Configs : ~c.update_paper_links /\ c.publish_readme
                                   /\ ~c.publish_gitpage /\ ~c.publish_wechat}
    /\ pc = "direct"
    /\ stage = 1
    /\ remaining = <<>>
    /\ new_table_data = <<>>
    /\ new_list_data = <<>>
    /\ error = NoError
    /\ calls = <<>>
    /\ lastOp = NoOp
    /\ input = <<>>
    /\ result = <<>>

\* ---- merge ----

\* Longest batch of a merge called on its own.
MaxBatch == 2

\* The row the fetcher writes for an identifier, without and with a link.
RowOf(id, title, code_url) ==
    TableRow(Paper(id, title, <<<<"A">>>>, <<>>), code_url)

\* The rows a batch may bring: two texts for "1", one for "2".
Row1Null == [k |-> <<"1">>, v |-> RowOf(<<"1">>, <<"t">>, <<>>)]

Row1Link == [k |-> <<"1">>, v |-> RowOf(<<"1">>, <<"t">>, OfficialUrl)]

Row2Null == [k |-> <<"2">>, v |-> RowOf(<<"2">>, <<"t">>, <<>>)]

\* The sequences of n entries with distinct keys.
RECURSIVE DictsOfSize(_, _)
DictsOfSize(entries, n) ==
    IF n = 0 THEN {<<>>}
    ELSE UNION {{Append(d, a) : a \in {c \in entries : ~Has(d, c.k)}} :
                   d \in DictsOfSize(entries, n - 1)}

\* The dicts of up to two entries over a set of entries, in every order.
DictsOver(entries) == UNION {DictsOfSize(entries, n) : n \in 0..2}

\* The single-topic documents a batch is made of, as a fetch returns them.
BatchElements ==
    {<<[k |-> TopicA, v |-> d]>> :
        d \in {<<>>, <<Row1Null>>, <<Row1Link>>, <<Row2Null>>,
               <<Row2Null, Row1Link>>}}
    \cup {<<[k |-> TopicB,
             v |-> <<[k |-> <<"1">>, v |-> RowOf(<<"1">>, <<"s">>, <<>>)]>>]>>}

SeqsUpTo(S, n) == UNION {[1..m -> S] : m \in 0..n}

InitMerge == InitDirect({AbsentFile, EmptyFile})

\* Two merges in a row: the first finds the file as it was, the second the
\* document the first one wrote.
CallMerge ==
    /\ pc \in {"direct", "again"}
    /\ pc' = IF pc = "direct" THEN "again" ELSE "returned"
    /\ \E batch \in SeqsUpTo(BatchElements, MaxBatch) :
       \E r \in {update_papers_json_file(files["readme"], batch)} :
              /\ files' = [files EXCEPT !["readme"] = r.file]
              /\ new_table_data' = r.batch
              /\ error' = r.error
              /\ lastOp' = Op("merge", "readme", files["readme"], batch, <<>>,
                              NoOptions)
    /\ UNCHANGED <<input, result, output, config, stage, remaining, new_list_data, calls>>

SpecMerge == InitMerge /\ [][CallMerge]_vars

\* ---- backfill ----

\* A table row given by its columns.
RowOfColumns(title, authors, id_link, code_link) ==
    <<"|", "*", "*", "2", "0", "2", "4", "-", "0", "1", "-", "0", "2", "*", "*", "|">> \o title \o <<"|">> \o authors \o <<"|">>
    \o id_link \o <<"|">> \o code_link \o <<"|", "\n">>

IdLink(id) == <<"[">> \o id \o <<"]", "(">> \o CleanArxivUrl(id) \o <<")">>

LinkColumn == <<"*", "*", "[", "l", "i", "n", "k", "]", "(", "u", ")", "*", "*">>

\* The rows a table store may hold for an identifier: the fetcher's row
\* without a link and with one; the fetcher's row, with a link, of an item
\* whose title holds "|" characters; a row whose title column is the text
\* "null", without a link and with one; a row whose identifier carries a
\* version.
BackfillRows(id) ==
    {RowOf(id, <<"t">>, <<>>),
     RowOf(id, <<"t">>, OfficialUrl),
     RowOf(id, <<"a", "|", "b", "|", "[", "9", "]", "|", "n", "u", "l", "l", "|", "c">>, OfficialUrl),
     RowOfColumns(NULL, <<"A", " ", "e", "t", ".", "a", "l", ".">>, IdLink(id), NULL),
     RowOfColumns(NULL, <<"A", " ", "e", "t", ".", "a", "l", ".">>, IdLink(id), LinkColumn),
     RowOfColumns(<<"*", "*", "t", "*", "*">>, <<"A", " ", "e", "t", ".", "a", "l", ".">>, IdLink(id \o <<"v", "2">>), NULL)}

\* A row the backfill cannot parse: the fetcher's row of an item whose title
\* holds "|" characters, as in |V|.
UnparsedRow == RowOf(<<"2">>, <<"|", "V", "|">>, <<>>)

BackfillEntries ==
    {[k |-> <<"1">>, v |-> row] : row \in BackfillRows(<<"1">>)}
    \cup {[k |-> <<"2">>, v |-> RowOf(<<"2">>, <<"t">>, <<>>)],
          [k |-> <<"2">>, v |-> UnparsedRow]}

\* The documents of the backfill: a topic of up to two rows, followed or not
\* by a second topic of one row.
BackfillDocs ==
    {<<[k |-> TopicA, v |-> d]>> \o rest :
        d \in DictsOver(BackfillEntries),
        rest \in {<<>>,
                  <<[k |-> TopicB, v |-> <<[k |-> <<"1">>,
                                            v |-> RowOf(<<"1">>, <<"s">>, <<>>)]>>]>>}}

InitBackfill ==
    InitDirect({AbsentFile, EmptyFile} \cup {JsonFile(d) : d \in BackfillDocs})

CallBackfill ==
    /\ pc = "direct"
    /\ pc' = "returned"
    /\ LET n == RequestCount(LoadJson(files["readme"]), 1, 1)
       IN  \E answers \in [1..n -> Answers] :
           \E r \in {update_paper_code_links(files["readme"], answers)} :
                  /\ files' = [files EXCEPT !["readme"] = r.file]
                  /\ calls' = BackfillCalls("readme", r.requests)
                  /\ error' = r.error
                  /\ lastOp' = Op("backfill", "readme", files["readme"], <<>>,
                                  answers, NoOptions)
    /\ UNCHANGED <<input, result, output, config, stage, remaining, new_table_data,
                   new_list_data>>

SpecBackfill == InitBackfill /\ [][CallBackfill]_vars

\* ---- render ----

\* Most entries of a topic of a rendered document.
MaxEntries == 2

\* The entries a rendered store may hold: rows of identifiers whose order as
\* strings is not their order as numbers, one a prefix of another, and an
\* empty text.
RenderEntries ==
    {[k |-> id, v |-> RowOf(id, <<"$", "x", "$">>, <<>>)] :
        id \in {<<"1">>, <<"1", "0">>, <<"2">>, <<"9">>}}
    \cup {[k |-> <<"2">>, v |-> <<>>]}

\* A topic of up to MaxEntries entries, with or without a second topic that
\* is empty or holds one row, in either order.
RenderDocs ==
    LET dicts == UNION {DictsOfSize(RenderEntries, n) : n \in 0..MaxEntries}
        others == {<<>>, <<[k |-> TopicB, v |-> EmptyDict]>>,
                   <<[k |-> TopicB, v |-> <<[k |-> <<"1">>,
                                             v |-> RowOf(<<"1">>, <<"s">>, <<>>)]>>]>>}
    IN  {<<[k |-> TopicA, v |-> d]>> \o o : d \in dicts, o \in others}
        \cup {o \o <<[k |-> TopicA, v |-> d]>> : d \in dicts, o \in others}

AllOptions ==
    [to_web : BOOLEAN, use_title : BOOLEAN, use_toc : BOOLEAN,
     show_badge : BOOLEAN, use_back_to_top : BOOLEAN]

InitRender ==
    InitDirect({AbsentFile, EmptyFile} \cup {JsonFile(d) : d \in RenderDocs})

CallRender ==
    /\ pc = "direct"
    /\ pc' = "returned"
    /\ \E opts \in AllOptions :
       \E r \in {convert_json_to_markdown(files["readme"], output["readme"], opts)} :
              /\ output' = [output EXCEPT !["readme"] = r.md]
              /\ error' = r.error
              /\ lastOp' = Op("render", "readme", files["readme"], <<>>, <<>>, opts)
    /\ UNCHANGED <<input, result, files, config, stage, remaining, new_table_data,
                   new_list_data, calls>>

SpecRender == InitRender /\ [][CallRender]_vars

-----------------------------------------------------------------------------
(* Properties of the merge.                                                *)

\* The document the last operation found and the document it left.
Before == LoadJson(lastOp.before)

After == LoadJson(files[lastOp.target])

\* The topics a batch names and the identifiers it brings for a topic.
BatchTopics(batch) == UNION {KeySet(batch[i]) : i \in DOMAIN batch}

BatchIds(batch, topic) ==
    UNION {KeySet(Get(batch[i], topic)) :
              i \in {j \in DOMAIN batch : Has(batch[j], topic)}}

\* The text of the last element of the batch that brings topic/id.
LastText(batch, topic, id) ==
    LET hits == {i \in DOMAIN batch :
                    Has(batch[i], topic) /\ Has(Get(batch[i], topic), id)}
        m == CHOOSE i \in hits : \A j \in hits : j <= i
    IN  Get(Get(batch[m], topic), id)

\* C1: a merge removes no topic and no identifier; a topic the batch does
\* not name keeps exactly its entries, and an identifier the batch does not
\* bring for its topic keeps its text.  Every merge starts from the document
\* the one before it wrote, so the identifiers of a topic only grow.
C1_MergeNonDestructive ==
    lastOp.op = "merge" =>
        \A topic \in KeySet(Before) :
            /\ Has(After, topic)
            /\ topic \notin BatchTopics(lastOp.batch)
                  => Get(After, topic) = Get(Before, topic)
            /\ \A id \in KeySet(Get(Before, topic)) :
                  /\ Has(Get(After, topic), id)
                  /\ id \notin BatchIds(lastOp.batch, topic)
                        => Get(Get(After, topic), id) = Get(Get(Before, topic), id)

\* A second merge that names one stored topic and not the other, and brings
\* a new identifier for it while another stored identifier is not in the batch.
C1_Witness ==
    /\ lastOp.op = "merge"
    /\ pc = "returned"
    /\ \E named \in KeySet(Before) \cap BatchTopics(lastOp.batch),
          other \in KeySet(Before) \ BatchTopics(lastOp.batch) :
          /\ Get(Before, other) # EmptyDict
          /\ KeySet(Get(Before, named)) \ BatchIds(lastOp.batch, named) # {}
          /\ BatchIds(lastOp.batch, named) \ KeySet(Get(Before, named)) # {}

\* C2: after a merge every identifier the batch brings for a topic holds the
\* last text the batch brings for it; a topic that was not stored holds
\* exactly the identifiers of the batch; the other identifiers of a stored
\* topic keep their text.
C2_MergeOverwrite ==
    lastOp.op = "merge" /\ error = NoError =>
        \A topic \in BatchTopics(lastOp.batch) :
            /\ Has(After, topic)
            /\ \A id \in BatchIds(lastOp.batch, topic) :
                  /\ Has(Get(After, topic), id)
                  /\ Get(Get(After, topic), id) = LastText(lastOp.batch, topic, id)
            /\ ~Has(Before, topic)
                  => KeySet(Get(After, topic)) = BatchIds(lastOp.batch, topic)
            /\ Has(Before, topic)
                  => /\ KeySet(Get(After, topic))
                          = KeySet(Get(Before, topic)) \cup BatchIds(lastOp.batch, topic)
                     /\ \A id \in KeySet(Get(Before, topic))
                                    \ BatchIds(lastOp.batch, topic) :
                           Get(Get(After, topic), id) = Get(Get(Before, topic), id)

\* A merge whose batch brings a stored identifier twice, with two texts, the
\* last of them not the stored one, while another stored identifier of the
\* topic is not in the batch; and the batch creates a topic.
C2_Witness ==
    /\ lastOp.op = "merge"
    /\ error = NoError
    /\ \E topic \in KeySet(Before) :
       \E id \in KeySet(Get(Before, topic)) :
          /\ \E i, j \in DOMAIN lastOp.batch :
                /\ i < j
                /\ Has(lastOp.batch[i], topic) /\ Has(lastOp.batch[j], topic)
                /\ Has(Get(lastOp.batch[i], topic), id)
                /\ Has(Get(lastOp.batch[j], topic), id)
                /\ Get(Get(lastOp.batch[i], topic), id)
                      # Get(Get(lastOp.batch[j], topic), id)
          /\ Get(Get(After, topic), id) # Get(Get(Before, topic), id)
          /\ KeySet(Get(Before, topic)) \ BatchIds(lastOp.batch, topic) # {}

-----------------------------------------------------------------------------
(* Properties of the backfill.                                             *)

\* The code-link column of a table row: its last column.
CodeColumn(row) ==
    LET parts == split(row, <<"|">>)
    IN  IF Len(parts) >= 2 THEN parts[Len(parts) - 1] ELSE <<>>

\* The row holds a code link.
HoldsLink(row) == StartsWithAt(CodeColumn(row), 1, <<"*", "*", "[", "l", "i", "n", "k", "]", "(">>)

\* The row with its last column replaced.
WithCodeColumn(row, column) ==
    LET parts == split(row, <<"|">>)
    IN  Join([i \in DOMAIN parts |->
                 IF i = Len(parts) - 1 THEN column ELSE parts[i]], <<"|">>)

\* The requests the last operation made for an entry.
CallsFor(topic, key) ==
    {i \in DOMAIN calls :
        /\ calls[i].op = "backfill" /\ calls[i].target = lastOp.target
        /\ calls[i].topic = topic /\ calls[i].key = key}

\* C3: a backfill makes no request for an entry that holds a code link, and
\* leaves its text as it was.
C3_LinkedEntriesNotQueried ==
    lastOp.op = "backfill" =>
        \A t \in DOMAIN Before : \A e \in DOMAIN Before[t].v :
            HoldsLink(Before[t].v[e].v) =>
                /\ CallsFor(Before[t].k, Before[t].v[e].k) = {}
                /\ After[t].v[e].v = Before[t].v[e].v

-----------------------------------------------------------------------------
(* Properties of a run of the workflow.                                    *)

\* Every entry of the single-topic documents of a batch is in the document.
Persisted(batch, document) ==
    \A i \in DOMAIN batch : \A t \in DOMAIN batch[i] :
        /\ Has(document, batch[i][t].k)
        /\ \A e \in DOMAIN batch[i][t].v :
              /\ Has(Get(document, batch[i][t].k), batch[i][t].v[e].k)
              /\ Get(Get(document, batch[i][t].k), batch[i][t].v[e].k)
                    = batch[i][t].v[e].v

\* C5: when the search of a topic fails, the items of the topics fetched
\* before it in the run are in the store of every published target.
C5_CompletedTopicsPersisted ==
    error = "SearchError" =>
        \A target \in Targets :
            Published(config, target) =>
                Persisted(NewDataFor(target, new_table_data, new_list_data),
                          LoadJson(files[target]))

\* C6: a merge or a backfill that finds no file for the store reads it as
\* the empty document: it raises nothing and writes the document.
C6_AbsentFileIsEmpty ==
    lastOp.op \in {"merge", "backfill"} /\ lastOp.before = AbsentFile =>
        /\ error = NoError
        /\ files[lastOp.target] =
              JsonFile(IF lastOp.op = "merge"
                       THEN MergeLoop(EmptyDict, lastOp.batch, EmptyDict, 1, 1).data
                       ELSE EmptyDict)

\* The search results of the last fetch.
FetchedTopic == lastOp.batch[1][1].k

FetchedResults == SubSeq(Feed(FetchedTopic), 1, Len(lastOp.answers))

\* The entries of a document whose code column is the sentinel, as
\* <<topic index, entry index>>.
NullEntries(document) ==
    UNION {{<<t, e>> : e \in {x \in DOMAIN document[t].v :
                                 CodeColumn(document[t].v[x].v) = NULL}} :
              t \in DOMAIN document}

\* C7: an exception of the code-link resolver never ends a run.  A fetch
\* records every item of the search, in both shapes, an item whose request
\* failed without a code link.  A backfill of a table store makes a request
\* for every entry without a link, leaves the entry of a failed request as it
\* was, gives the entry of a request that reports a link that link, and
\* writes the document.
C7_ResolverFailureContained ==
    /\ error # "RequestException"
    /\ lastOp.op = "fetch" =>
          /\ pc # "aborted"
          /\ \A i \in DOMAIN FetchedResults :
                LET id == CleanPaperId(FetchedResults[i].short_id)
                    table == lastOp.batch[1][1].v
                    list == lastOp.batch[2][1].v
                IN  /\ Has(table, id) /\ Has(list, id)
                    /\ new_table_data[Len(new_table_data)] = lastOp.batch[1]
                    /\ new_list_data[Len(new_list_data)] = lastOp.batch[2]
                    /\ lastOp.answers[i] = "error" =>
                          /\ CodeColumn(Get(table, id)) = NULL
                          /\ find(Get(list, id), <<"C", "o", "d", "e", ":">>) = 0
    /\ lastOp.op = "backfill" /\ lastOp.target # "wechat" /\ CanOpen(lastOp.before) =>
          /\ pc = "render"
          /\ files[lastOp.target].kind = "json"
          /\ \A p \in NullEntries(Before) :
                LET topic == Before[p[1]].k
                    key == Before[p[1]].v[p[2]].k
                    row == Before[p[1]].v[p[2]].v
                IN  /\ Cardinality(CallsFor(topic, key)) = 1
                    /\ \A i \in CallsFor(topic, key) :
                          /\ calls[i].answer = "official"
                                => HoldsLink(After[p[1]].v[p[2]].v)
                          /\ calls[i].answer # "official"
                                => After[p[1]].v[p[2]].v = row

\* A backfill whose first request failed and whose later requests, for the
\* same topic and for the next one, reported a link.
C7_Witness ==
    /\ lastOp.op = "backfill"
    /\ lastOp.target = "readme"
    /\ lastOp.answers = <<"error", "official", "official">>
    /\ pc = "render"
    /\ After[1].v[1].v = Before[1].v[1].v
    /\ HoldsLink(After[1].v[3].v)
    /\ HoldsLink(After[2].v[1].v)

\* C8: no run calls the backfill on the store of the messaging digest.
C8_NoBackfillOfListStore ==
    ~(lastOp.op = "backfill" /\ lastOp.target = "wechat")

-----------------------------------------------------------------------------
(* The helper functions called on their own.                               *)

\* The state before the call of a helper on one of the inputs.
InitHelper(inputs) ==
    /\ files = [t \in Targets |-> AbsentFile]
    /\ output = [t \in Targets |-> NoOutput]
    /\ config \in {c \in Configs : ~c.update_paper_links /\ c.publish_readme
                                   /\ ~c.publish_gitpage /\ ~c.publish_wechat}
    /\ pc = "direct"
    /\ stage = 1
    /\ remaining = <<>>
    /\ new_table_data = <<>>
    /\ new_list_data = <<>>
    /\ error = NoError
    /\ calls = <<>>
    /\ lastOp = NoOp
    /\ input \in inputs
    /\ result = <<>>

\* ---- format_latex_formula ----

\* Longest line formatted.
MaxText == 4

\* The characters of a line: the delimiter, the two characters that need no
\* space next to a formula, another whitespace character and a letter.
TextChars == {"$", " ", "*", "\t", "a"}

InitLatex == InitHelper(SeqsUpTo(TextChars, MaxText))

\* format_latex_formula(text), then format_latex_formula of what it returned.
CallFormat ==
    /\ pc \in {"direct", "again"}
    /\ pc' = IF pc = "direct" THEN "again" ELSE "returned"
    /\ result' = Append(result, format_latex_formula(
                                    IF pc = "direct" THEN input ELSE result[Len(result)]))
    /\ lastOp' = Op("format_latex_formula", "none", AbsentFile, <<>>, <<>>, NoOptions)
    /\ UNCHANGED <<input, files, output, config, stage, remaining,
                   new_table_data, new_list_data, error, calls>>

SpecLatex == InitLatex /\ [][CallFormat]_vars

\* ---- parse_filter_keywords ----

\* Most phrases of a filter list.
MaxPhrases == 3

\* The phrases of a filter list: one word, two words around a space, a word
\* after or before a space, two words around a tab, and the empty phrase.
Phrases ==
    {<<"a">>, <<"a", " ", "b">>, <<" ", "a">>, <<"a", " ">>,
     <<"a", "\t", "b">>, <<>>}

InitKeywords == InitHelper(SeqsUpTo(Phrases, MaxPhrases))

\* parse_filter_keywords(filters)
CallParse ==
    /\ pc = "direct"
    /\ pc' = "returned"
    /\ result' = <<parse_filter_keywords(input)>>
    /\ lastOp' = Op("parse_filter_keywords", "none", AbsentFile, <<>>, <<>>, NoOptions)
    /\ UNCHANGED <<input, files, output, config, stage, remaining,
                   new_table_data, new_list_data, error, calls>>

SpecKeywords == InitKeywords /\ [][CallParse]_vars

-----------------------------------------------------------------------------
(* The renderer.                                                           *)

\* The document a finished renderer call read and the blocks it wrote.
Rendered == lastOp.op = "render" /\ error = NoError

RenderedDoc == LoadJson(lastOp.before)

Written == output[lastOp.target]

\* The blocks written for a topic, in the order written.
RECURSIVE BlocksOf(_, _)
BlocksOf(blocks, topic) ==
    IF blocks = <<>> THEN <<>>
    ELSE (IF blocks[1].topic = topic THEN <<blocks[1]>> ELSE <<>>)
         \o BlocksOf(Tail(blocks), topic)

\* The entries written for a topic, in the order written.
RECURSIVE EntriesOf(_, _)
EntriesOf(blocks, topic) ==
    IF blocks = <<>> THEN <<>>
    ELSE (IF blocks[1].kind = "entry" /\ blocks[1].topic = topic
          THEN <<blocks[1]>> ELSE <<>>)
         \o EntriesOf(Tail(blocks), topic)

HeadingText(topic) == <<"#", "#", " ">> \o topic \o <<"\n">>

EmptyTopics(document) ==
    {document[i].k : i \in {j \in DOMAIN document : document[j].v = EmptyDict}}

\* C9, as amended: for every store document and every combination of renderer
\* options, a topic whose entry mapping is empty gets no heading, no column
\* header, no entry and no back-to-top link, and no block written holds its
\* heading line; the only block written for it is its item of the table of
\* contents, written exactly when the table of contents is switched on.
C9_EmptyTopicOnlyInToc ==
    Rendered =>
        \A topic \in EmptyTopics(RenderedDoc) :
            LET blocks == BlocksOf(Written, topic)
            IN  /\ \A i \in DOMAIN blocks : blocks[i].kind = "toc_item"
                /\ Len(blocks) = IF lastOp.opts.use_toc THEN 1 ELSE 0
                /\ \A i \in DOMAIN Written :
                       find(Written[i].text, HeadingText(topic)) = 0

\* A document with an empty topic and a topic that holds rows was rendered
\* with the table of contents on: the topic that holds rows has its section
\* and the empty one its item of the table of contents.
C9_Witness ==
    /\ Rendered
    /\ lastOp.opts.use_toc
    /\ lastOp.opts.use_back_to_top
    /\ EmptyTopics(RenderedDoc) = {TopicB}
    /\ Len(RenderedDoc) = 2
    /\ Len(EntriesOf(Written, TopicA)) = 2
    /\ \E i \in DOMAIN Written :
          Written[i].kind = "heading" /\ Written[i].topic = TopicA
    /\ \E i \in DOMAIN Written :
          Written[i].kind = "toc_item" /\ Written[i].topic = TopicB

\* C9, as stated: a topic whose entry mapping is empty has nothing written
\* for it anywhere in the output, the table of contents included.
C9_EmptyTopicNowhere ==
    Rendered =>
        \A topic \in EmptyTopics(RenderedDoc) : BlocksOf(Written, topic) = <<>>

\* The identifiers of a topic's stored entries whose text is not empty.
NonEmptyIds(papers) ==
    {papers[i].k : i \in {j \in DOMAIN papers : papers[j].v # <<>>}}

\* The blocks of a topic's section that follow its heading are its column
\* header, then its entries, then the blank line that closes them.
SectionInOrder(blocks) ==
    \A i, j \in DOMAIN blocks :
        /\ (blocks[i].kind = "heading" /\ blocks[j].kind = "entry") => i < j
        /\ (blocks[i].kind = "entry" /\ blocks[j].kind = "blank") => i < j

\* C10: for every store document, the entries written in a topic's section
\* are in strictly descending lexicographic order of their identifiers,
\* whatever the order the store holds them in, and they are the stored
\* entries of the topic whose text is not empty, each written exactly once.
C10_EntriesDescending ==
    Rendered =>
        \A t \in DOMAIN RenderedDoc :
            LET topic == RenderedDoc[t].k
                entries == EntriesOf(Written, topic)
            IN  /\ \A i, j \in DOMAIN entries :
                       i < j => StrLess(entries[j].id, entries[i].id)
                /\ {entries[i].id : i \in DOMAIN entries}
                       = NonEmptyIds(RenderedDoc[t].v)
                /\ Len(entries) = Cardinality(NonEmptyIds(RenderedDoc[t].v))
                /\ \A i \in DOMAIN entries :
                       entries[i].text
                           = format_latex_formula(Get(RenderedDoc[t].v, entries[i].id))
                /\ SectionInOrder(BlocksOf(Written, topic))

\* A topic stored with "10" before "9" (ascending as strings, and the order
\* numbers would be written in) was rendered with "9" first.
C10_Witness ==
    /\ Rendered
    /\ \E t \in DOMAIN RenderedDoc :
          /\ RenderedDoc[t].k = TopicA
          /\ Keys(RenderedDoc[t].v) = <<<<"1", "0">>, <<"9">>>>
    /\ LET entries == EntriesOf(Written, TopicA)
       IN  /\ Len(entries) = 2
           /\ entries[1].id = <<"9">>
           /\ entries[2].id = <<"1", "0">>

-----------------------------------------------------------------------------
(* The helper functions.                                                   *)

\* C11: for every line, format_latex_formula treats only the first substring
\* delimited by a pair of "$": it trims the whitespace inside the delimiters,
\* puts one space before the opening "$" iff a character precedes it that is
\* neither a space nor an asterisk, one space after the closing "$" iff a
\* character follows it that is neither a space nor an asterisk, and leaves
\* all the text outside that region (later regions included) as it was; a
\* line without such a region is returned unchanged; formatting the line
\* returned changes nothing.
C11_FirstRegionOnly ==
    lastOp.op = "format_latex_formula" =>
        LET dollars == {i \in DOMAIN input : input[i] = "$"}
            open == CHOOSE i \in dollars : \A j \in dollars : i <= j
            later == {i \in dollars : i > open}
            close == CHOOSE i \in later : \A j \in later : i <= j
            before == IF open > 1 /\ input[open - 1] \notin {" ", "*"}
                      THEN <<" ">> ELSE <<>>
            after == IF close < Len(input) /\ input[close + 1] \notin {" ", "*"}
                     THEN <<" ">> ELSE <<>>
            expected ==
                IF Cardinality(dollars) < 2 THEN input
                ELSE SubSeq(input, 1, open - 1)
                     \o before \o <<"$">>
                     \o strip(SubSeq(input, open + 1, close - 1))
                     \o <<"$">> \o after
                     \o From(input, close + 1)
        IN  /\ result[1] = expected
            /\ Len(result) = 2 => result[2] = result[1]

\* C12: for every list of phrases, parse_filter_keywords returns the phrases
\* in the order of the list joined by " OR ", a phrase that contains a space
\* character between one pair of double quotes and a phrase that contains
\* none as it is; a list of one phrase gives no OR and the empty list gives
\* the empty string.
C12_SpacedPhrasesQuoted ==
    lastOp.op = "parse_filter_keywords" =>
        LET HasSpace(phrase) == \E k \in DOMAIN phrase : phrase[k] = " "
            emitted == [i \in DOMAIN input |->
                           IF HasSpace(input[i])
                           THEN <<"\"">> \o input[i] \o <<"\"">>
                           ELSE input[i]]
        IN  result[1] = Join(emitted, <<" ", "O", "R", " ">>)

====
